---- MODULE Spec2Model ----
(***************************************************************************)
(* Options strategy analyzing framework (Framework.run_app and the spread  *)
(* pipeline it drives): strike grid, Black-Scholes leg prices, break-even  *)
(* point, lognormal section probabilities, expected result, filter and     *)
(* ranking.                                                                *)
(*                                                                         *)
(* Number representation.  The program computes in binary floating point;  *)
(* the model computes in decimal fixed point:                              *)
(*   money (S, strikes, rounded prices, bep, maxGain, maxLoss)  cents      *)
(*   rounded probabilities and the rounded expected result      1/1000     *)
(*   every unrounded real (d, z, cdf values, ER terms, ...)     1/1000000  *)
(*   DTE in days, IV in percent, rate in 1/10000 percent.                  *)
(* Library functions (log, exp, sqrt, norm.cdf) are computed to that       *)
(* resolution by series, Newton iteration and a table of the normal cdf.   *)
(***************************************************************************)
EXTENDS Integers, Sequences, FiniteSets, TLC

\* ------------------------------------------------------------------------
\* Fixed-point arithmetic at 10^-6 (TLC integers are 32 bits wide, so
\* products are taken in base-1000 limbs).
\* ------------------------------------------------------------------------
ONE == 1000 * 1000

Abs(x) == IF x < 0 THEN -x ELSE x

Sgn(x) == IF x < 0 THEN -1 ELSE 1

\* round(n / d) for n >= 0, d > 0, ties to even (Python's round)
RoundDivPos(n, d) ==
    LET q == n \div d
        r == n % d
    IN  IF 2 * r > d \/ (2 * r = d /\ q % 2 = 1) THEN q + 1 ELSE q

\* round(n / d), d > 0
RoundDiv(n, d) == Sgn(n) * RoundDivPos(Abs(n), d)

\* a * b for a, b in 10^-6 units, result in 10^-6 units, rounded to nearest
MulPos(a, b) ==
    LET a1 == a \div 1000
        a0 == a % 1000
        b1 == b \div 1000
        b0 == b % 1000
    IN  a1 * b1 + (a1 * b0 + a0 * b1 + (a0 * b0 + 500) \div 1000 + 500) \div 1000

Mul(a, b) == Sgn(a) * Sgn(b) * MulPos(Abs(a), Abs(b))

\* a / b for integers a >= 0, b > 0 with b < 2 * 10^6, result in 10^-6 units
DivPos(a, b) ==
    LET q0 == a \div b
        r0 == a % b
        q1 == (r0 * 1000) \div b
        r1 == (r0 * 1000) % b
    IN  q0 * ONE + q1 * 1000 + (r1 * 1000 + b \div 2) \div b

\* a / b, b # 0 (both in the same unit), result in 10^-6 units
Div(a, b) == Sgn(a) * Sgn(b) * DivPos(Abs(a), Abs(b))

\* math.sqrt / np.sqrt of n / d (integers, 0 < n <= d <= 1000), Newton's
\* iteration from above on the value held at 10^-9
RECURSIVE SqrtIter(_, _)
SqrtIter(t9, r) ==
    LET q == (t9 \div r) * 1000 + ((t9 % r) * 1000) \div r
        nxt == (r + q) \div 2
    IN  IF nxt >= r THEN r ELSE SqrtIter(t9, nxt)

SqrtRatio(n, d) ==
    LET q6 == (n * ONE) \div d
        r6 == (n * ONE) % d
        t9 == q6 * 1000 + (r6 * 1000) \div d
    IN  SqrtIter(t9, ONE)

\* math.exp / np.exp by its power series, x in 10^-6 units, |x| < 2
RECURSIVE ExpSum(_, _, _)
ExpSum(x, term, k) ==
    IF term = 0 THEN 0
    ELSE term + ExpSum(x, RoundDiv(Mul(term, x), k), k + 1)

Exp(x) == ExpSum(x, ONE, 1)

\* math.log / np.log of a / b (positive integers below 10^6):
\* log(a/b) = 2 * atanh(y), y = (a - b) / (a + b)
RECURSIVE AtanhSum(_, _, _)
AtanhSum(y2, pow, k) ==
    LET term == RoundDiv(pow, k)
    IN  IF term = 0 THEN 0
        ELSE term + AtanhSum(y2, Mul(pow, y2), k + 2)

Log(a, b) ==
    LET y == Div(a - b, a + b)
    IN  2 * AtanhSum(Mul(y, y), y, 1)

\* scipy.stats.norm.cdf at z = i / 100, i = 0 .. 500, in 10^-6 units
PhiTable == <<
    500000, 503989, 507978, 511966, 515953, 519939, 523922, 527903, 531881, 535856,
    539828, 543795, 547758, 551717, 555670, 559618, 563559, 567495, 571424, 575345,
    579260, 583166, 587064, 590954, 594835, 598706, 602568, 606420, 610261, 614092,
    617911, 621720, 625516, 629300, 633072, 636831, 640576, 644309, 648027, 651732,
    655422, 659097, 662757, 666402, 670031, 673645, 677242, 680822, 684386, 687933,
    691462, 694974, 698468, 701944, 705401, 708840, 712260, 715661, 719043, 722405,
    725747, 729069, 732371, 735653, 738914, 742154, 745373, 748571, 751748, 754903,
    758036, 761148, 764238, 767305, 770350, 773373, 776373, 779350, 782305, 785236,
    788145, 791030, 793892, 796731, 799546, 802337, 805105, 807850, 810570, 813267,
    815940, 818589, 821214, 823814, 826391, 828944, 831472, 833977, 836457, 838913,
    841345, 843752, 846136, 848495, 850830, 853141, 855428, 857690, 859929, 862143,
    864334, 866500, 868643, 870762, 872857, 874928, 876976, 879000, 881000, 882977,
    884930, 886861, 888768, 890651, 892512, 894350, 896165, 897958, 899727, 901475,
    903200, 904902, 906582, 908241, 909877, 911492, 913085, 914657, 916207, 917736,
    919243, 920730, 922196, 923641, 925066, 926471, 927855, 929219, 930563, 931888,
    933193, 934478, 935745, 936992, 938220, 939429, 940620, 941792, 942947, 944083,
    945201, 946301, 947384, 948449, 949497, 950529, 951543, 952540, 953521, 954486,
    955435, 956367, 957284, 958185, 959070, 959941, 960796, 961636, 962462, 963273,
    964070, 964852, 965620, 966375, 967116, 967843, 968557, 969258, 969946, 970621,
    971283, 971933, 972571, 973197, 973810, 974412, 975002, 975581, 976148, 976705,
    977250, 977784, 978308, 978822, 979325, 979818, 980301, 980774, 981237, 981691,
    982136, 982571, 982997, 983414, 983823, 984222, 984614, 984997, 985371, 985738,
    986097, 986447, 986791, 987126, 987455, 987776, 988089, 988396, 988696, 988989,
    989276, 989556, 989830, 990097, 990358, 990613, 990863, 991106, 991344, 991576,
    991802, 992024, 992240, 992451, 992656, 992857, 993053, 993244, 993431, 993613,
    993790, 993963, 994132, 994297, 994457, 994614, 994766, 994915, 995060, 995201,
    995339, 995473, 995604, 995731, 995855, 995975, 996093, 996207, 996319, 996427,
    996533, 996636, 996736, 996833, 996928, 997020, 997110, 997197, 997282, 997365,
    997445, 997523, 997599, 997673, 997744, 997814, 997882, 997948, 998012, 998074,
    998134, 998193, 998250, 998305, 998359, 998411, 998462, 998511, 998559, 998605,
    998650, 998694, 998736, 998777, 998817, 998856, 998893, 998930, 998965, 998999,
    999032, 999065, 999096, 999126, 999155, 999184, 999211, 999238, 999264, 999289,
    999313, 999336, 999359, 999381, 999402, 999423, 999443, 999462, 999481, 999499,
    999517, 999534, 999550, 999566, 999581, 999596, 999610, 999624, 999638, 999651,
    999663, 999675, 999687, 999698, 999709, 999720, 999730, 999740, 999749, 999758,
    999767, 999776, 999784, 999792, 999800, 999807, 999815, 999822, 999828, 999835,
    999841, 999847, 999853, 999858, 999864, 999869, 999874, 999879, 999883, 999888,
    999892, 999896, 999900, 999904, 999908, 999912, 999915, 999918, 999922, 999925,
    999928, 999931, 999933, 999936, 999938, 999941, 999943, 999946, 999948, 999950,
    999952, 999954, 999956, 999958, 999959, 999961, 999963, 999964, 999966, 999967,
    999968, 999970, 999971, 999972, 999973, 999974, 999975, 999976, 999977, 999978,
    999979, 999980, 999981, 999982, 999983, 999983, 999984, 999985, 999985, 999986,
    999987, 999987, 999988, 999988, 999989, 999989, 999990, 999990, 999991, 999991,
    999991, 999992, 999992, 999993, 999993, 999993, 999993, 999994, 999994, 999994,
    999995, 999995, 999995, 999995, 999996, 999996, 999996, 999996, 999996, 999996,
    999997, 999997, 999997, 999997, 999997, 999997, 999997, 999998, 999998, 999998,
    999998, 999998, 999998, 999998, 999998, 999998, 999998, 999998, 999999, 999999,
    999999, 999999, 999999, 999999, 999999, 999999, 999999, 999999, 999999, 999999,
    999999, 999999, 999999, 999999, 999999, 999999, 999999, 999999, 999999, 999999,
    1000000, 1000000, 1000000, 1000000, 1000000, 1000000, 1000000, 1000000, 1000000, 1000000,
    1000000
 >>

\* scipy.stats.norm.cdf(z), z in 10^-6 units: the table, linearly
\* interpolated; 1 (0) beyond z = 5 (-5), symmetric about 0
cdfPos(z) ==
    IF z >= 5 * ONE THEN ONE
    ELSE LET i == z \div 10000
             f == z % 10000
             lo == PhiTable[i + 1]
             hi == PhiTable[i + 2]
         IN  lo + ((hi - lo) * f + 5000) \div 10000

cdf(z) == IF z >= 0 THEN cdfPos(z) ELSE ONE - cdfPos(-z)

\* ------------------------------------------------------------------------
\* option_pricing_black_scholes: the Black-Scholes prices, in 10^-6
\* (S and K in cents, DTE in days, IV in percent, rate in 10^-4 percent)
\* ------------------------------------------------------------------------
Money(c) == c * 10000

t_yrs(DTE) == Div(DTE, 365)

v_dec(IV) == IV * 10000

r_dec(rate) == rate

sqrt_t_yrs(DTE) == SqrtRatio(DTE, 365)

d(S, K, DTE, IV, rate) ==
    Div(Log(S, K) + Mul(r_dec(rate) + RoundDiv(Mul(v_dec(IV), v_dec(IV)), 2),
                        t_yrs(DTE)),
        Mul(v_dec(IV), sqrt_t_yrs(DTE)))

call_price(S, K, DTE, IV, rate) ==
    LET d1 == d(S, K, DTE, IV, rate)
    IN  Mul(Money(S), cdf(d1))
        - Mul(Mul(Money(K), Exp(Mul(-1 * r_dec(rate), t_yrs(DTE)))),
              cdf(d1 - Mul(v_dec(IV), sqrt_t_yrs(DTE))))

\* put_price with cdf(d) where the formula has cdf(-d)
put_price_same_tail(S, K, DTE, IV, rate) ==
    LET d1 == d(S, K, DTE, IV, rate)
    IN  Mul(-Money(S), cdf(d1))
        + Mul(Mul(Money(K), Exp(Mul(-r_dec(rate), t_yrs(DTE)))),
              cdf(Mul(v_dec(IV), sqrt_t_yrs(DTE)) - d1))

put_price(S, K, DTE, IV, rate) ==
    LET d1 == d(S, K, DTE, IV, rate)
    IN  Mul(-Money(S), cdf(-d1))
        + Mul(Mul(Money(K), Exp(Mul(-r_dec(rate), t_yrs(DTE)))),
              cdf(Mul(v_dec(IV), sqrt_t_yrs(DTE)) - d1))

\* OptionPricing.__init__ with arbitrary numbers: the exception the
\* computation of d raises, in the order Python evaluates it (S / K, m.log,
\* m.sqrt, the division), "none" when the object is constructed
OptionPricing_init_raises(S, K, DTE, IV, rate) ==
    IF K = 0 THEN "ZeroDivisionError"
    ELSE IF S = 0 \/ (S < 0) # (K < 0) THEN "ValueError"
    ELSE IF DTE < 0 THEN "ValueError"
    ELSE IF IV = 0 \/ DTE = 0 THEN "ZeroDivisionError"
    ELSE "none"

\* run(S, K, DTE, IV, r): the range test that raises InvalidDataError
run_out_of_range(S, K, DTE, IV, rate) ==
    \/ S < 2000 \/ S > 20000
    \/ K < 2000 \/ K > 20000
    \/ DTE < 1 \/ DTE > 360
    \/ IV < 10 \/ IV > 150
    \/ rate < 10000 \/ rate > 40000

\* run's res_dict["call"]["value"] and res_dict["put"]["value"]:
\* round(Decimal(price), 2), held in 10^-6
run_values(S, K, DTE, IV, rate) ==
    << Money(RoundDiv(call_price(S, K, DTE, IV, rate), 10000)),
       Money(RoundDiv(put_price(S, K, DTE, IV, rate), 10000)) >>

\* bs.OptionPrice(S, K, DTE, IV, rate).call_price() / .put_price(): the
\* pricing class strategy_spread imports; the price rounded to 2 places,
\* in cents
OptionPrice_call_price(S, K, DTE, IV, rate) ==
    RoundDiv(call_price(S, K, DTE, IV, rate), 10000)

OptionPrice_put_price(S, K, DTE, IV, rate) ==
    RoundDiv(put_price(S, K, DTE, IV, rate), 10000)

\* ------------------------------------------------------------------------
\* strategy_spread: Price, BreakEvenPoint, Payoff
\* ------------------------------------------------------------------------
\* <<low_price, high_price>>, cents
bull_call_prices(S, low_K, high_K, DTE, IV, rate) ==
    << OptionPrice_call_price(S, low_K, DTE, IV, rate),
       OptionPrice_call_price(S, high_K, DTE, IV, rate) >>

\* bull_put_prices with both legs priced as calls
bull_put_prices_as_calls(S, low_K, high_K, DTE, IV, rate) ==
    << OptionPrice_call_price(S, low_K, DTE, IV, rate),
       OptionPrice_call_price(S, high_K, DTE, IV, rate) >>

bull_put_prices(S, low_K, high_K, DTE, IV, rate) ==
    << OptionPrice_put_price(S, low_K, DTE, IV, rate),
       OptionPrice_put_price(S, high_K, DTE, IV, rate) >>

run_price(S, low_K, high_K, DTE, IV, rate, strategy) ==
    CASE strategy = "bull_call_spread" ->
             bull_call_prices(S, low_K, high_K, DTE, IV, rate)
      [] strategy = "bull_put_spread" ->
             bull_put_prices(S, low_K, high_K, DTE, IV, rate)

\* round(x, 2) of a sum of amounts in whole cents is that sum in cents
\* bull_call_bep with the two prices exchanged
bull_call_bep_exchanged(low_K, high_price, low_price) == low_K - low_price + high_price

bull_call_bep(low_K, high_price, low_price) == low_K - high_price + low_price

bull_put_bep(high_K, high_price, low_price) == high_K - high_price + low_price

run_bep(high_K, low_K, high_price, low_price, strategy) ==
    CASE strategy = "bull_call_spread" ->
             bull_call_bep(low_K, high_price, low_price)
      [] strategy = "bull_put_spread" ->
             bull_put_bep(high_K, high_price, low_price)

\* ------------------------------------------------------------------------
\* probability_calc: Probability, ExpectedResult, GainLoss
\* ------------------------------------------------------------------------
period_vol(DTE, IV) == Mul(v_dec(IV), SqrtRatio(DTE, 365))

z0 == -4 * ONE

z4 == 4 * ONE

calc_z_values(S, bep, high_K, low_K, pv) ==
    << z0,
       Div(Log(low_K, S), pv),
       Div(Log(bep, S), pv),
       Div(Log(high_K, S), pv),
       z4 >>

\* the last section taken from z2 instead of z3
calc_sections_probability_slip(z_list) ==
    << cdf(z_list[2]) - cdf(z_list[1]),
       cdf(z_list[3]) - cdf(z_list[2]),
       cdf(z_list[4]) - cdf(z_list[3]),
       cdf(z_list[5]) - cdf(z_list[3]) >>

\* z_list[1..5] holds z0..z4
calc_sections_probability(z_list) ==
    << cdf(z_list[2]) - cdf(z_list[1]),
       cdf(z_list[3]) - cdf(z_list[2]),
       cdf(z_list[4]) - cdf(z_list[3]),
       cdf(z_list[5]) - cdf(z_list[4]) >>

calc_Nx_values(z_list, pv) ==
    << cdf(z_list[3] - pv) - cdf(z_list[2] - pv),
       cdf(z_list[4] - pv) - cdf(z_list[3] - pv) >>

\* S * exp(period_vol ** 2 / 2) * Nx - bep * PR
LinearER(S, bep, pv, Nx, PR) ==
    Mul(Mul(Money(S), Exp(RoundDiv(Mul(pv, pv), 2))), Nx) - Mul(Money(bep), PR)

bull_call_ER(S, Ksc, bep, sc, lc, pv, PR_list, Nx_list) ==
    << Mul(Money(sc - lc), PR_list[1]),
       LinearER(S, bep, pv, Nx_list[1], PR_list[2]),
       LinearER(S, bep, pv, Nx_list[2], PR_list[3]),
       Mul(Money(Ksc - bep), PR_list[4]) >>

bull_put_ER(S, Klp, bep, sp, lp, pv, PR_list, Nx_list) ==
    << Mul(Money(Klp - bep), PR_list[1]),
       LinearER(S, bep, pv, Nx_list[1], PR_list[2]),
       LinearER(S, bep, pv, Nx_list[2], PR_list[3]),
       Mul(Money(sp - lp), PR_list[4]) >>

run_expected_result_calc(S, high_price, low_price, bep, high_K, low_K, strategy, pv, PR_list, Nx_list) ==
    CASE strategy = "bull_call_spread" ->
             bull_call_ER(S, high_K, bep, high_price, low_price, pv, PR_list, Nx_list)
      [] strategy = "bull_put_spread" ->
             bull_put_ER(S, low_K, bep, high_price, low_price, pv, PR_list, Nx_list)

Sum4(l) == l[1] + l[2] + l[3] + l[4]

\* round(sum(ER_list), 3), in 1/1000
calc_expected_result(ER_list) == RoundDiv(Sum4(ER_list), 1000)

\* <<PR_gain, PR_loss>>, in 1/1000
PR_gain_of(ER_list, PR_list) ==
    RoundDiv(Sum4([i \in 1..4 |-> IF ER_list[i] > 0 THEN PR_list[i] ELSE 0]), 1000)

\* the probability of loss as its own sum (the sections with ER <= 0)
PR_loss_own_sum(PR_gain, ER_list, PR_list) ==
    RoundDiv(Sum4([i \in 1..4 |-> IF ER_list[i] <= 0 THEN PR_list[i] ELSE 0]), 1000)

PR_loss_of(PR_gain, ER_list, PR_list) == RoundDiv(ONE - PR_gain * 1000, 1000)

calc_gain_loss_probability(ER_list, PR_list) ==
    LET PR_gain == PR_gain_of(ER_list, PR_list)
    IN  << PR_gain, PR_loss_of(PR_gain, ER_list, PR_list) >>

\* <<maxGain, maxLoss>>, cents
bull_call_gain_loss(Ksc, bep, sc, lc) == << Ksc - bep, sc - lc >>

\* bull_put_gain_loss with maxGain and maxLoss exchanged
bull_put_gain_loss_exchanged(Klp, bep, sp, lp) == << Klp - bep, sp - lp >>

bull_put_gain_loss(Klp, bep, sp, lp) == << sp - lp, Klp - bep >>

run_gain_loss_calc(high_price, low_price, bep, high_K, low_K, strategy) ==
    CASE strategy = "bull_call_spread" ->
             bull_call_gain_loss(high_K, bep, high_price, low_price)
      [] strategy = "bull_put_spread" ->
             bull_put_gain_loss(low_K, bep, high_price, low_price)

\* Probability(...).run_probability(): the object's fields after the run;
\* res_row is the list returned
run_probability(S, high_price, low_price, bep, high_K, low_K, DTE, IV, strategy) ==
    LET pv      == period_vol(DTE, IV)
        z_list  == calc_z_values(S, bep, high_K, low_K, pv)
        PR_list == calc_sections_probability(z_list)
        Nx_list == calc_Nx_values(z_list, pv)
        ER_list == run_expected_result_calc(S, high_price, low_price, bep, high_K,
                                            low_K, strategy, pv, PR_list, Nx_list)
        ER      == calc_expected_result(ER_list)
        gl      == calc_gain_loss_probability(ER_list, PR_list)
        mgl     == run_gain_loss_calc(high_price, low_price, bep, high_K, low_K,
                                      strategy)
    IN  [ z_list  |-> z_list,
          PR_list |-> PR_list,
          ER_list |-> ER_list,
          res_row |-> << low_K, low_price, high_K, high_price, bep,
                         gl[1], gl[2], mgl[1], mgl[2], ER >> ]


\* calc_stock_price_arr / calc_payoff / collect_chart_data: the payoff curve
\* of one strike pair (stock prices in cents, payoffs in cents)
Max(a, b) == IF a >= b THEN a ELSE b

\* np.arange(start, stop, step) on a common integer unit
arange(start, stop, step) ==
    LET n == IF stop > start THEN (stop - start + step - 1) \div step ELSE 0
    IN  [i \in 1..n |-> start + (i - 1) * step]

RNG_STOCK == 15

STOCK_PRICE_STEP == 50

\* calc_stock_price_arr without the step added to the stop value
calc_stock_price_arr_open_end(low_K, high_K) ==
    arange(Max(low_K - RNG_STOCK * 100, 0), high_K + RNG_STOCK * 100, STOCK_PRICE_STEP)

calc_stock_price_arr(low_K, high_K) ==
    arange(Max(low_K - RNG_STOCK * 100, 0),
           high_K + RNG_STOCK * 100 + STOCK_PRICE_STEP, STOCK_PRICE_STEP)

MULTI == 100

CONTRACT == 1

bull_call_payoff(stock_price_arr, high_K, low_K, bep, high_price, low_price) ==
    [n \in 1..Len(stock_price_arr) |->
        LET i == stock_price_arr[n]
            res_at_expiration ==
                IF i <= low_K THEN high_price - low_price
                ELSE IF low_K < i /\ i < high_K THEN i - bep
                ELSE high_K - bep
        IN  res_at_expiration * MULTI * CONTRACT]

\* bull_put_payoff with the results of the two outer branches exchanged
bull_put_payoff_ends_exchanged(stock_price_arr, high_K, low_K, bep, high_price, low_price) ==
    [n \in 1..Len(stock_price_arr) |->
        LET i == stock_price_arr[n]
            res_at_expiration ==
                IF i <= low_K THEN high_price - low_price
                ELSE IF low_K < i /\ i < high_K THEN i - bep
                ELSE low_K - bep
        IN  res_at_expiration * MULTI * CONTRACT]

bull_put_payoff(stock_price_arr, high_K, low_K, bep, high_price, low_price) ==
    [n \in 1..Len(stock_price_arr) |->
        LET i == stock_price_arr[n]
            res_at_expiration ==
                IF i <= low_K THEN low_K - bep
                ELSE IF low_K < i /\ i < high_K THEN i - bep
                ELSE high_price - low_price
        IN  res_at_expiration * MULTI * CONTRACT]

run_payoff(stock_price_arr, low_K, high_K, bep, high_price, low_price, strategy) ==
    CASE strategy = "bull_call_spread" ->
             bull_call_payoff(stock_price_arr, high_K, low_K, bep, high_price, low_price)
      [] strategy = "bull_put_spread" ->
             bull_put_payoff(stock_price_arr, high_K, low_K, bep, high_price, low_price)

\* The Spread object after calc_stock_price_arr, calc_option_price,
\* calc_break_even_point and calc_payoff, the four steps run_strategy and
\* collect_chart_data both start with
Spread_calc(S, low_K, high_K, DTE, IV, rate, strategy) ==
    LET stock_price_arr == calc_stock_price_arr(low_K, high_K)
        prices == run_price(S, low_K, high_K, DTE, IV, rate, strategy)
        bep    == run_bep(high_K, low_K, prices[2], prices[1], strategy)
    IN  [ low_K           |-> low_K,
          high_K          |-> high_K,
          stock_price_arr |-> stock_price_arr,
          low_price       |-> prices[1],
          high_price      |-> prices[2],
          bep             |-> bep,
          payoff_arr      |-> run_payoff(stock_price_arr, low_K, high_K, bep,
                                         prices[2], prices[1], strategy) ]

\* Spread.run_strategy() on the object sp: the Probability object it runs
run_strategy(S, sp, DTE, IV, strategy) ==
    run_probability(S, sp.high_price, sp.low_price, sp.bep, sp.high_K, sp.low_K,
                    DTE, IV, strategy)

\* collect_chart_data with the two arrays exchanged
collect_chart_data_exchanged(sp) == << sp.payoff_arr, sp.stock_price_arr >>

\* Spread.collect_chart_data() on the object sp:
\* <<stock_price_arr, payoff_arr>>
collect_chart_data(sp) == << sp.stock_price_arr, sp.payoff_arr >>

\* ------------------------------------------------------------------------
\* options_strategy_analyzing_framework: Framework
\* ------------------------------------------------------------------------
RNG_STRIKE == 5

STRIKE_PRICE_STEP == 50

\* int(x), x in cents, as whole dollars (truncation toward zero)
int(x) == IF x >= 0 THEN x \div 100 ELSE -((-x) \div 100)

\* list(product(A, B))
product(A, B) ==
    [k \in 1..(Len(A) * Len(B)) |->
        << A[(k - 1) \div Len(B) + 1], B[((k - 1) % Len(B)) + 1] >>]

\* the guard without the one added to RNG_STRIKE
strike_range_invalid_no_margin(S) == RNG_STRIKE * 100 >= S

\* the guard of create_strike_pairs: TRUE when InvalidDataError is raised
strike_range_invalid(S) == (RNG_STRIKE + 1) * 100 >= S

strike_grid(S) ==
    LET Kmin == S - RNG_STRIKE * 100
        Kmax == S + RNG_STRIKE * 100
    IN  arange(int(Kmin) * 100, int(Kmax) * 100 + 10, STRIKE_PRICE_STEP)

\* the pair test with <= for <
spread_pair_or_equal(k) == k[1] <= k[2]

spread_pair(k) == k[1] < k[2]

create_strike_pairs(S, strategy) ==
    LET lower_strike  == strike_grid(S)
        higher_strike == strike_grid(S)
        strike_pairs_list == product(lower_strike, higher_strike)
    IN  IF strategy \in {"short_straddle", "long_naked_call", "short_naked_put"}
        THEN SelectSeq(strike_pairs_list, LAMBDA k : k[1] = k[2])
        ELSE IF strategy \in {"bull_call_spread", "bull_put_spread"}
        THEN SelectSeq(strike_pairs_list, spread_pair)
        ELSE << >>

\* the filter with the expected result left out of the test
passes_filter_prices_only(res_row) == res_row[2] > 8 /\ res_row[4] > 8

\* the filter of get_all_results: both leg prices and ER above 0.08
passes_filter(res_row) == res_row[2] > 8 /\ res_row[4] > 8 /\ res_row[10] > 80

\* res_list.sort(key=lambda x: x[9], reverse=True): stable, descending.
\* sort_position(l, n) is the place row n of l takes: after every row with
\* a larger key and after the earlier rows with the same key.
sort_position(l, n) ==
    Cardinality({m \in 1..Len(l) : l[m][10] > l[n][10]})
    + Cardinality({m \in 1..n : l[m][10] = l[n][10]})

\* the sort with reverse=True left out: ascending
sort_by_ER_asc(l) ==
    LET pos == [n \in 1..Len(l) |->
                   Cardinality({m \in 1..Len(l) : l[m][10] < l[n][10]})
                   + Cardinality({m \in 1..n : l[m][10] = l[n][10]})]
    IN  [p \in 1..Len(l) |-> l[CHOOSE n \in 1..Len(l) : pos[n] = p]]

sort_by_ER_desc(l) ==
    LET pos == [n \in 1..Len(l) |-> sort_position(l, n)]
    IN  [p \in 1..Len(l) |-> l[CHOOSE n \in 1..Len(l) : pos[n] = p]]

\* the check for an empty list left out
no_trade_never(l) == FALSE

\* the check after the sort: TRUE when NoTradeFoundError is raised
no_trade_found(l) == Len(l) = 0

\* the strategy list with a strategy create_strike_pairs still knows
strategies_with_straddle == {"bull_call_spread", "bull_put_spread", "short_straddle"}

strategies == {"bull_call_spread", "bull_put_spread"}

\* run_app without its except clause for NoTradeFoundError
handled_without_no_trade == {"InvalidStrategyError", "InvalidDataError"}

\* the except clauses of run_app
handled == {"NoTradeFoundError", "InvalidStrategyError", "InvalidDataError"}

\* message with the line of the last except clause for every exception
message_of_last_clause(exc) == "[Error] Please check the input parameters"

message(exc) ==
    CASE exc = "NoTradeFoundError"    -> "[Error] No valid trade found"
      [] exc = "InvalidStrategyError" -> "[Error] Invalid strategy is selected"
      [] exc = "InvalidDataError"     -> "[Error] Please check the input parameters"

\* ------------------------------------------------------------------------
\* Inputs of a run
\* ------------------------------------------------------------------------
SpotChoices == << 6000, 5000, 2500, 600, 610, 500, 6050 >>

NumSpots == 6

IVChoices == << 40, 4, 10, 20 >>

NumIVs == 3

Min(a, b) == IF a <= b THEN a ELSE b

Spots == { SpotChoices[n] : n \in 1..Min(NumSpots, Len(SpotChoices)) }

IVs == { IVChoices[n] : n \in 1..Min(NumIVs, Len(IVChoices)) }

DTEs == { 30 }

Rates == { 25136 }

StrategyTags == { "bull_call_spread", "bull_put_spread", "short_straddle", "iron_condor" }

NoSpread == [ low_K |-> 0, high_K |-> 0, stock_price_arr |-> << >>, low_price |-> 0,
              high_price |-> 0, bep |-> 0, payoff_arr |-> << >> ]

NoProb == [ z_list |-> << >>, PR_list |-> << >>, ER_list |-> << >>, res_row |-> << >> ]

VARIABLES
    S, DTE, IV, rate, strategy, show_chart,   \* the Framework object
    pc,             \* position in run_app
    strike_pairs,   \* create_strike_pairs' result
    idx,            \* position of the loop of get_all_results in strike_pairs
    res_list,       \* get_all_results' res_list
    spread,         \* the Spread object constructed last
    prob,           \* the Probability object of the candidate evaluated last
    all_rows,       \* res_row of every candidate evaluated, in order
    chart_data,     \* get_selected_best_result's result, << >> for None
    raised,         \* the exception raised inside run_app, "none" if none
    printed,        \* lines printed
    displayed,      \* display_result has shown the chart
    returned,       \* "no", "list" (run_app returned res_list) or "None"
    signaled,       \* the exception that left run_app, "none" if none
    pricing_calls,  \* OptionPrice objects constructed
    K,              \* the strike price of a direct call of the pricing module
    op_prices       \* <<call price, put price>> of that call, << >> before it

vars == << S, DTE, IV, rate, strategy, show_chart, pc, strike_pairs, idx, res_list,
           spread, prob, all_rows, chart_data, raised, printed, displayed, returned,
           signaled, pricing_calls, K, op_prices >>

\* the variables only a direct call of the pricing module uses
direct_pricing == << K, op_prices >>

inputs == << S, DTE, IV, rate, strategy, show_chart >>

\* Framework(S, DTE, IV, rate, strategy, show_chart), run_app about to start
Init ==
    /\ S \in Spots
    /\ DTE \in DTEs
    /\ IV \in IVs
    /\ rate \in Rates
    /\ strategy \in StrategyTags
    /\ show_chart \in BOOLEAN
    /\ pc = "run_app"
    /\ strike_pairs = << >>
    /\ idx = 1
    /\ res_list = << >>
    /\ spread = NoSpread
    /\ prob = NoProb
    /\ all_rows = << >>
    /\ chart_data = << >>
    /\ raised = "none"
    /\ printed = << >>
    /\ displayed = FALSE
    /\ returned = "no"
    /\ signaled = "none"
    /\ pricing_calls = 0
    /\ K = 0
    /\ op_prices = << >>

\* run_app: the strategy check
CheckStrategy ==
    /\ pc = "run_app"
    /\ IF strategy \notin strategies
       THEN /\ raised' = "InvalidStrategyError"
            /\ pc' = "except"
       ELSE /\ pc' = "create_strike_pairs"
            /\ UNCHANGED raised
    /\ UNCHANGED << inputs, direct_pricing, strike_pairs, idx, res_list, spread, prob, all_rows, chart_data,
                    printed, displayed, returned, signaled, pricing_calls >>

\* run_app: strike_pairs = self.create_strike_pairs()
CreateStrikePairs ==
    /\ pc = "create_strike_pairs"
    /\ IF strike_range_invalid(S)
       THEN /\ raised' = "InvalidDataError"
            /\ pc' = "except"
            /\ UNCHANGED strike_pairs
       ELSE /\ strike_pairs' = create_strike_pairs(S, strategy)
            /\ pc' = "get_all_results"
            /\ UNCHANGED raised
    /\ UNCHANGED << inputs, direct_pricing, idx, res_list, spread, prob, all_rows, chart_data,
                    printed, displayed, returned, signaled, pricing_calls >>

\* get_all_results: one pass of the loop over strike_pairs
EvaluateCandidate ==
    /\ pc = "get_all_results"
    /\ idx <= Len(strike_pairs)
    /\ LET vals == strike_pairs[idx]
           sp == Spread_calc(S, vals[1], vals[2], DTE, IV, rate, strategy)
           p == run_strategy(S, sp, DTE, IV, strategy)
       IN  /\ spread' = sp
           /\ prob' = p
           /\ all_rows' = Append(all_rows, p.res_row)
           /\ res_list' = IF passes_filter(p.res_row)
                          THEN Append(res_list, p.res_row)
                          ELSE res_list
    /\ idx' = idx + 1
    /\ pricing_calls' = pricing_calls + 2
    /\ UNCHANGED << inputs, direct_pricing, pc, strike_pairs, chart_data, raised, printed,
                    displayed, returned, signaled >>

\* get_all_results: after the loop, the sort and the check for no trade
SortAndCheck ==
    /\ pc = "get_all_results"
    /\ idx > Len(strike_pairs)
    /\ res_list' = sort_by_ER_desc(res_list)
    /\ IF no_trade_found(res_list')
       THEN /\ raised' = "NoTradeFoundError"
            /\ pc' = "except"
       ELSE /\ pc' = "get_selected_best_result"
            /\ UNCHANGED raised
    /\ UNCHANGED << inputs, direct_pricing, strike_pairs, idx, spread, prob, all_rows, chart_data,
                    printed, displayed, returned, signaled, pricing_calls >>

\* run_app: chart_data = self.get_selected_best_result(res_list)
GetSelectedBestResult ==
    /\ pc = "get_selected_best_result"
    /\ IF show_chart
       THEN /\ spread' = Spread_calc(S, res_list[1][1], res_list[1][3], DTE, IV, rate,
                                      strategy)
            /\ chart_data' = collect_chart_data(spread')
            /\ pricing_calls' = pricing_calls + 2
       ELSE /\ chart_data' = << >>
            /\ UNCHANGED << spread, pricing_calls >>
    /\ pc' = "display"
    /\ UNCHANGED << inputs, direct_pricing, strike_pairs, idx, res_list, prob, all_rows, raised,
                    printed, displayed, returned, signaled >>

\* run_app: display_result when there is chart data, then return res_list
DisplayAndReturn ==
    /\ pc = "display"
    /\ displayed' = (chart_data # << >> /\ show_chart)
    /\ returned' = "list"
    /\ pc' = "done"
    /\ UNCHANGED << inputs, direct_pricing, strike_pairs, idx, res_list, spread, prob, all_rows, chart_data,
                    raised, printed, signaled, pricing_calls >>

\* run_app: the except clauses; the function then ends without a return
\* statement (returns None). Any other exception leaves run_app.
Except ==
    /\ pc = "except"
    /\ IF raised \in handled
       THEN /\ printed' = Append(printed, message(raised))
            /\ returned' = "None"
            /\ UNCHANGED signaled
       ELSE /\ signaled' = raised
            /\ UNCHANGED << printed, returned >>
    /\ pc' = "done"
    /\ UNCHANGED << inputs, direct_pricing, strike_pairs, idx, res_list, spread, prob, all_rows, chart_data,
                    raised, displayed, pricing_calls >>

Next ==
    \/ CheckStrategy
    \/ CreateStrikePairs
    \/ EvaluateCandidate
    \/ SortAndCheck
    \/ GetSelectedBestResult
    \/ DisplayAndReturn
    \/ Except

Spec == Init /\ [][Next]_vars

\* ------------------------------------------------------------------------
\* option_pricing_black_scholes called on its own: OptionPricing(S, K, DTE,
\* IV, r) followed by call_price() and put_price(), or run(S, K, DTE, IV, r).
\* S, DTE, IV and rate hold the arguments, K the strike; there is no
\* Framework object and the variables of its search rest.
\* ------------------------------------------------------------------------
PricingSpots == { -6000, 0, 1500, 6000, 20000 }

PricingStrikes == { -5500, 0, 2000, 5500, 6500 }

PricingDTEs == { -30, 0, 1, 30, 360 }

PricingIVs == { -40, 0, 10, 40, 150 }

PricingRates == { -10000, 0, 10000, 25136, 40000 }

search_state == << strategy, show_chart, strike_pairs, idx, res_list, spread, prob, all_rows,
                  chart_data, displayed, pricing_calls >>

PricingInit ==
    /\ S \in PricingSpots
    /\ K \in PricingStrikes
    /\ DTE \in PricingDTEs
    /\ IV \in PricingIVs
    /\ rate \in PricingRates
    /\ pc \in { "OptionPricing", "run" }
    /\ op_prices = << >>
    /\ raised = "none"
    /\ printed = << >>
    /\ returned = "no"
    /\ signaled = "none"
    /\ strategy = "bull_call_spread"
    /\ show_chart = FALSE
    /\ strike_pairs = << >>
    /\ idx = 1
    /\ res_list = << >>
    /\ spread = NoSpread
    /\ prob = NoProb
    /\ all_rows = << >>
    /\ chart_data = << >>
    /\ displayed = FALSE
    /\ pricing_calls = 0

\* op = OptionPricing(S, K, DTE, IV, r): __init__ computes d; an exception
\* of that computation leaves the constructor
OptionPricingInit ==
    /\ pc = "OptionPricing"
    /\ LET exc == OptionPricing_init_raises(S, K, DTE, IV, rate)
       IN  IF exc # "none"
           THEN /\ raised' = exc
                /\ signaled' = exc
                /\ pc' = "done"
           ELSE /\ pc' = "op.call_price"
                /\ UNCHANGED << raised, signaled >>
    /\ UNCHANGED << S, DTE, IV, rate, K, op_prices, printed, returned, search_state >>

\* op.call_price() and op.put_price() of the constructed object
OptionPricingPrices ==
    /\ pc = "op.call_price"
    /\ op_prices' = << call_price(S, K, DTE, IV, rate), put_price(S, K, DTE, IV, rate) >>
    /\ returned' = "prices"
    /\ pc' = "done"
    /\ UNCHANGED << S, DTE, IV, rate, K, raised, printed, signaled, search_state >>

\* run(S, K, DTE, IV, r): the range test, the except clause that prints
\* (the function then returns None), or the dictionary of values
PricingRun ==
    /\ pc = "run"
    /\ IF run_out_of_range(S, K, DTE, IV, rate)
       THEN /\ raised' = "InvalidDataError"
            /\ printed' = Append(printed, "[Error] Input parameter(s) out of range")
            /\ returned' = "None"
            /\ UNCHANGED op_prices
       ELSE /\ op_prices' = run_values(S, K, DTE, IV, rate)
            /\ returned' = "dict"
            /\ UNCHANGED << raised, printed >>
    /\ pc' = "done"
    /\ UNCHANGED << S, DTE, IV, rate, K, signaled, search_state >>

PricingNext ==
    \/ OptionPricingInit
    \/ OptionPricingPrices
    \/ PricingRun

PricingSpec == PricingInit /\ [][PricingNext]_vars

\* ------------------------------------------------------------------------
\* Properties
\* ------------------------------------------------------------------------
\* get_all_results has returned its list (run_app goes on with it)
search_returned ==
    pc \in {"get_selected_best_result", "display", "done"} /\ strike_pairs # << >>
    /\ raised = "none"

\* the loop of get_all_results and the statements after it have run
search_finished ==
    pc \in {"get_selected_best_result", "display", "done", "except"}
    /\ strike_pairs # << >>

IsSorted(l) == \A n \in 1..(Len(l) - 1) : l[n][10] >= l[n + 1][10]

\* C1: every list the search returns is ordered by expectedResult,
\* descending: each row's expectedResult is >= the next row's, so the first
\* row has the largest expectedResult of the retained candidates.
C1_RankedByExpectedResult ==
    search_returned =>
        /\ IsSorted(res_list)
        /\ \A n \in 1..Len(res_list) : res_list[1][10] >= res_list[n][10]

\* a returned list whose rows were not appended in ranking order
C1_Witness ==
    /\ returned = "list"
    /\ Len(res_list) >= 2
    /\ res_list[1][10] > res_list[Len(res_list)][10]
    /\ ~IsSorted(SelectSeq(all_rows, LAMBDA r : r \in {res_list[n] : n \in 1..Len(res_list)}))

Occurrences(l, r) == Cardinality({n \in 1..Len(l) : l[n] = r})

\* C2: once the search has evaluated the candidates, a candidate's row is
\* in the result list exactly once if its lowLegPrice > 0.08, its
\* highLegPrice > 0.08 and its expectedResult > 0.08, and not at all
\* otherwise; the list holds no other row.
C2_FilterExact ==
    search_finished =>
        /\ Len(all_rows) = Len(strike_pairs)
        /\ \A n \in 1..Len(all_rows) :
              Occurrences(res_list, all_rows[n]) =
                  IF all_rows[n][2] > 8 /\ all_rows[n][4] > 8 /\ all_rows[n][10] > 80
                  THEN 1 ELSE 0
        /\ \A m \in 1..Len(res_list) : Occurrences(all_rows, res_list[m]) = 1

\* a returned list with candidates kept, candidates dropped for a leg price
\* and candidates dropped for the expected result alone
C2_Witness ==
    /\ returned = "list"
    /\ Len(res_list) >= 1
    /\ \E n \in 1..Len(all_rows) : all_rows[n][2] <= 8 /\ all_rows[n][10] > 80
    /\ \E n \in 1..Len(all_rows) : all_rows[n][4] <= 8
    /\ \E n \in 1..Len(all_rows) :
          all_rows[n][2] > 8 /\ all_rows[n][4] > 8 /\ all_rows[n][10] <= 80

C5_InvalidStrategySignaled ==
    (pc = "done" /\ strategy \notin {"bull_call_spread", "bull_put_spread"}) =>
        /\ signaled = "InvalidStrategyError"
        /\ strike_pairs = << >>
        /\ pricing_calls = 0

\* C5 amended: for a strategy tag other than the two spreads, whatever the
\* other inputs (spot <= 6 included), run_app raises InvalidStrategyError
\* before any computation (no strike grid, no pricing call, no result list)
\* and catches it itself: it prints the invalid-strategy message and returns
\* None.
C5_InvalidStrategyFirst ==
    (pc # "run_app" /\ strategy \notin {"bull_call_spread", "bull_put_spread"}) =>
        /\ raised = "InvalidStrategyError"
        /\ strike_pairs = << >>
        /\ all_rows = << >>
        /\ res_list = << >>
        /\ pricing_calls = 0
        /\ returned # "list"
        /\ pc = "done" =>
              /\ returned = "None"
              /\ signaled = "none"
              /\ printed = << "[Error] Invalid strategy is selected" >>

\* an unknown strategy together with a spot the grid check would reject
C5_Witness ==
    /\ pc = "done"
    /\ strategy = "short_straddle"
    /\ S <= 600
    /\ raised = "InvalidStrategyError"
    /\ returned = "None"

\* C6: strike-grid generation raises InvalidDataError exactly when
\* spot <= 6, before any pricing call; when it succeeds every strike of
\* every pair is strictly positive.
C6_GridGuard ==
    (pc \notin {"run_app", "create_strike_pairs"}
     /\ strategy \in {"bull_call_spread", "bull_put_spread"}) =>
        /\ raised = "InvalidDataError" <=> S <= 600
        /\ raised = "InvalidDataError" => pricing_calls = 0 /\ strike_pairs = << >>
        /\ S > 600 =>
              /\ strike_pairs # << >>
              /\ \A n \in 1..Len(strike_pairs) :
                    strike_pairs[n][1] > 0 /\ strike_pairs[n][2] > 0

\* the boundary spot 6 rejected
C6_Witness ==
    /\ S = 600
    /\ strategy = "bull_put_spread"
    /\ raised = "InvalidDataError"
    /\ pc = "done"

Lexless(a, b) == a[1] < b[1] \/ (a[1] = b[1] /\ a[2] < b[2])

\* C7: for a spread strategy and spot > 6 the candidate list is exactly
\* the pairs (a, b), a < b, of the grid int(spot-5), int(spot-5)+0.5, ...,
\* int(spot+5), each once (n(n-1)/2 pairs for n grid values), in product
\* order (ascending lowStrike, then ascending highStrike).
C7_CandidatePairs ==
    (pc \notin {"run_app", "create_strike_pairs"}
     /\ strategy \in {"bull_call_spread", "bull_put_spread"} /\ S > 600) =>
        LET first == ((S - 500) \div 100) * 100
            last  == ((S + 500) \div 100) * 100
            n     == (last - first) \div 50 + 1
            grid  == { first + 50 * j : j \in 0..(n - 1) }
        IN  /\ Len(strike_pairs) = (n * (n - 1)) \div 2
            /\ \A m \in 1..Len(strike_pairs) :
                  /\ strike_pairs[m][1] \in grid
                  /\ strike_pairs[m][2] \in grid
                  /\ strike_pairs[m][1] < strike_pairs[m][2]
            /\ \A m \in 1..(Len(strike_pairs) - 1) :
                  Lexless(strike_pairs[m], strike_pairs[m + 1])

\* the grid of a spot that is no whole number: 6.10 gives 1, 1.5, ..., 11
C7_Witness ==
    /\ S = 610
    /\ Len(strike_pairs) = 210
    /\ strike_pairs[1] = << 100, 150 >>
    /\ strike_pairs[2] = << 100, 200 >>
    /\ strike_pairs[210] = << 1050, 1100 >>

\* C8: for every candidate evaluated (lowStrike < highStrike) the row's
\* probabilityOfGain and probabilityOfLoss add up to exactly 1.000.
C8_GainPlusLossIsOne ==
    (prob.res_row # << >> /\ prob.res_row[1] < prob.res_row[3]) =>
        prob.res_row[6] + prob.res_row[7] = 1000

\* a candidate with sections on both sides: gain 0.507, loss 0.493
C8_Witness ==
    /\ prob.res_row # << >>
    /\ prob.res_row[1] < prob.res_row[3]
    /\ prob.res_row[6] = 507
    /\ prob.res_row[7] = 493
    /\ \E i \in 1..4 : prob.ER_list[i] > 0
    /\ \E i \in 1..4 : prob.ER_list[i] <= 0

\* C9: for every candidate the search generates each of the four section
\* probabilities is >= 0, that is -4 <= z1 <= z2 <= z3 <= 4.
C9_SectionProbabilitiesNonNegative ==
    prob.PR_list # << >> =>
        /\ \A i \in 1..4 : prob.PR_list[i] >= 0
        /\ \A i \in 1..4 : prob.z_list[i] <= prob.z_list[i + 1]

\* C10: for every candidate evaluated the four section probabilities sum
\* to 1 within 10^-3 (the sum is cdf(4) - cdf(-4) whatever z1, z2, z3 are).
C10_SectionsSumToOne ==
    prob.PR_list # << >> =>
        /\ Sum4(prob.PR_list) - ONE <= 1000
        /\ ONE - Sum4(prob.PR_list) <= 1000
        /\ Sum4(prob.PR_list) = cdf(4 * ONE) - cdf(-4 * ONE)

\* a candidate whose z1 lies below -4, so the first section is negative
C10_Witness ==
    /\ prob.PR_list # << >>
    /\ prob.z_list[2] < -4 * ONE
    /\ prob.PR_list[1] < 0
    /\ prob.PR_list[2] > 0

\* the inputs lie in the ranges the pricing module documents: spot 10-200,
\* DTE 1-360, IV 10-150, rate 1-4
InRecognizedRanges ==
    /\ S \in 1000..20000
    /\ DTE \in 1..360
    /\ IV \in 10..150
    /\ rate \in 10000..40000

\* C11 (as stated): for inputs in the recognized ranges the rounded break-even
\* point of every candidate evaluated lies strictly between its strikes,
\* low_K < bep < high_K.
C11_BreakEvenStrictlyBetween ==
    InRecognizedRanges =>
        \A n \in 1..Len(all_rows) :
            all_rows[n][1] < all_rows[n][5] /\ all_rows[n][5] < all_rows[n][3]

\* C11 (amended): the rounded break-even point of every candidate evaluated
\* lies between its strikes, the strikes included: low_K <= bep <= high_K.
\* It equals a strike when the two rounded leg prices are equal or differ
\* by the distance of the strikes.
C11_BreakEvenWithinStrikes ==
    \A n \in 1..Len(all_rows) :
        /\ all_rows[n][1] <= all_rows[n][5]
        /\ all_rows[n][5] <= all_rows[n][3]

\* a finished search with inputs in the recognized ranges that met a
\* break-even point on the low strike, one on the high strike and one
\* strictly between the strikes
C11_Witness ==
    /\ InRecognizedRanges
    /\ search_finished
    /\ \E n \in 1..Len(all_rows) : all_rows[n][5] = all_rows[n][1]
    /\ \E n \in 1..Len(all_rows) : all_rows[n][5] = all_rows[n][3]
    /\ \E n \in 1..Len(all_rows) :
           all_rows[n][1] < all_rows[n][5] /\ all_rows[n][5] < all_rows[n][3]

\* the arguments of the pricing call lie in the mathematical domain of the
\* model: S > 0, K > 0, t > 0, sigma > 0, r >= 0
InPricingDomain == S > 0 /\ K > 0 /\ DTE > 0 /\ IV > 0 /\ rate >= 0

\* C12: the pricing module called with S <= 0, K <= 0, t <= 0, sigma <= 0 or
\* r < 0 fails with the invalid-input error (InvalidDataError in the code),
\* never with another error, a printed line or a None result (DTE = 0 and
\* IV = 0 included); called with arguments of the domain it gives prices.
C12_OutOfDomainRejected ==
    pc = "done" =>
        IF InPricingDomain
        THEN signaled = "none" /\ printed = << >> /\ returned \in {"prices", "dict"}
        ELSE signaled = "InvalidDataError" /\ printed = << >> /\ returned = "no"

\* C13: put-call parity.  For arguments of the domain the prices of the
\* constructed object satisfy call_price - put_price = S - K * exp(-r_dec *
\* t_yrs) within 0.01.
C13_PutCallParity ==
    (pc = "done" /\ returned = "prices" /\ InPricingDomain) =>
        Abs(op_prices[1] - op_prices[2]
            - (Money(S) - Mul(Money(K), Exp(Mul(-r_dec(rate), t_yrs(DTE))))))
          <= 10000

\* both prices computed for arguments of the domain, neither of them
\* negligible
C13_Witness ==
    /\ pc = "done"
    /\ returned = "prices"
    /\ InPricingDomain
    /\ op_prices[1] > 10000
    /\ op_prices[2] > 10000

\* a Spread object has been constructed and run
spread_run == spread # NoSpread

\* C14: every payoff of a Spread object is 100 times the three-branch rule
\* of its strategy at the stock price of the same position (bull call:
\* high_price - low_price up to low_K, i - bep between the strikes,
\* high_K - bep from high_K on; bull put: low_K - bep, i - bep,
\* high_price - low_price), and exactly one branch applies to each point.
C14_PayoffThreeBranches ==
    spread_run =>
        \A n \in 1..Len(spread.stock_price_arr) :
            LET i      == spread.stock_price_arr[n]
                below  == i <= spread.low_K
                inside == spread.low_K < i /\ i < spread.high_K
                above  == i >= spread.high_K
                net    == spread.high_price - spread.low_price
                rule   == IF strategy = "bull_call_spread"
                          THEN (IF below THEN net
                                ELSE IF inside THEN i - spread.bep
                                ELSE spread.high_K - spread.bep)
                          ELSE (IF below THEN spread.low_K - spread.bep
                                ELSE IF inside THEN i - spread.bep
                                ELSE net)
            IN  /\ Cardinality({ b \in {1, 2, 3} :
                                    \/ b = 1 /\ below
                                    \/ b = 2 /\ inside
                                    \/ b = 3 /\ above }) = 1
                /\ n <= Len(spread.payoff_arr)
                /\ spread.payoff_arr[n] = 100 * rule

\* a bull put Spread object whose grid has points below, on, between and
\* above its strikes, and whose three branches give three different results
C14_Witness ==
    /\ spread_run
    /\ strategy = "bull_put_spread"
    /\ \E n \in 1..Len(spread.stock_price_arr) : spread.stock_price_arr[n] < spread.low_K
    /\ \E n \in 1..Len(spread.stock_price_arr) : spread.stock_price_arr[n] = spread.low_K
    /\ \E n \in 1..Len(spread.stock_price_arr) :
           spread.low_K < spread.stock_price_arr[n]
           /\ spread.stock_price_arr[n] < spread.high_K
    /\ \E n \in 1..Len(spread.stock_price_arr) : spread.stock_price_arr[n] = spread.high_K
    /\ \E n \in 1..Len(spread.stock_price_arr) : spread.stock_price_arr[n] > spread.high_K
    /\ spread.low_K - spread.bep < 0
    /\ spread.high_price - spread.low_price > 0

\* the points first, first + step, ..., last
IsGrid(arr, first, last, step) ==
    /\ Len(arr) = (last - first) \div step + 1
    /\ \A n \in 1..Len(arr) : arr[n] = first + (n - 1) * step
    /\ arr[Len(arr)] = last

\* C15 (as stated): the payoff grid of every strike pair is low_K - 15,
\* low_K - 14.5, ..., high_K + 15, and stock prices and payoffs both have
\* 2 * (high_K - low_K + 30) + 1 entries.
C15_GridFromLowMinus15 ==
    spread_run =>
        /\ IsGrid(spread.stock_price_arr, spread.low_K - 1500, spread.high_K + 1500, 50)
        /\ Len(spread.stock_price_arr) = (2 * (spread.high_K - spread.low_K + 3000)) \div 100 + 1
        /\ Len(spread.payoff_arr) = Len(spread.stock_price_arr)

\* C15 (amended): the payoff grid of every strike pair is first, first + 0.5,
\* ..., high_K + 15 with first = max(low_K - 15, 0), and stock prices and
\* payoffs both have 2 * (high_K + 15 - first) + 1 entries.
C15_GridClampedAtZero ==
    spread_run =>
        LET first == IF spread.low_K - 1500 > 0 THEN spread.low_K - 1500 ELSE 0
        IN  /\ IsGrid(spread.stock_price_arr, first, spread.high_K + 1500, 50)
            /\ Len(spread.stock_price_arr) = (2 * (spread.high_K + 1500 - first)) \div 100 + 1
            /\ Len(spread.payoff_arr) = Len(spread.stock_price_arr)

\* a Spread object with a low strike below 15, its grid starting at 0
C15_Witness ==
    /\ spread_run
    /\ spread.low_K < 1500
    /\ spread.stock_price_arr[1] = 0
    /\ spread.stock_price_arr[Len(spread.stock_price_arr)] = spread.high_K + 1500
    /\ Len(spread.payoff_arr) = Len(spread.stock_price_arr)

\* C16: the two leg prices of a Spread object are the pricing class's call
\* prices at low_K and high_K for bull_call_spread and its put prices for
\* bull_put_spread, and bep = low_K - high_price + low_price for
\* bull_call_spread, high_K - high_price + low_price for bull_put_spread.
C16_LegTypesAndBreakEven ==
    spread_run =>
        IF strategy = "bull_call_spread"
        THEN /\ spread.low_price = OptionPrice_call_price(S, spread.low_K, DTE, IV, rate)
             /\ spread.high_price = OptionPrice_call_price(S, spread.high_K, DTE, IV, rate)
             /\ spread.bep = spread.low_K - spread.high_price + spread.low_price
        ELSE /\ spread.low_price = OptionPrice_put_price(S, spread.low_K, DTE, IV, rate)
             /\ spread.high_price = OptionPrice_put_price(S, spread.high_K, DTE, IV, rate)
             /\ spread.bep = spread.high_K - spread.high_price + spread.low_price

\* a bull put Spread object whose put prices differ from the call prices at
\* the same strikes and from each other
C16_Witness ==
    /\ spread_run
    /\ strategy = "bull_put_spread"
    /\ spread.low_price # OptionPrice_call_price(S, spread.low_K, DTE, IV, rate)
    /\ spread.high_price # OptionPrice_call_price(S, spread.high_K, DTE, IV, rate)
    /\ spread.low_price > 0
    /\ spread.high_price > spread.low_price

\* C17: in the row of every candidate evaluated, [low_K, low_price, high_K,
\* high_price, bep, PR_gain, PR_loss, maxGain, maxLoss, ER], maxGain and
\* maxLoss (positions 7 and 8 counted from 0) are high_K - bep and
\* high_price - low_price for bull_call_spread, high_price - low_price and
\* low_K - bep for bull_put_spread.
C17_MaxGainMaxLoss ==
    \A n \in 1..Len(all_rows) :
        LET row == all_rows[n]
        IN  /\ Len(row) = 10
            /\ row[1] = strike_pairs[n][1]
            /\ row[3] = strike_pairs[n][2]
            /\ IF strategy = "bull_call_spread"
               THEN row[8] = row[3] - row[5] /\ row[9] = row[4] - row[2]
               ELSE row[8] = row[4] - row[2] /\ row[9] = row[1] - row[5]

\* the row of the Spread object evaluated last, for a bull put spread with
\* a gain and a loss that differ in size
C17_Witness ==
    /\ strategy = "bull_put_spread"
    /\ Len(all_rows) > 0
    /\ LET row == all_rows[Len(all_rows)]
       IN  /\ row[2] = spread.low_price
           /\ row[4] = spread.high_price
           /\ row[5] = spread.bep
           /\ row[8] > 0
           /\ row[9] < 0
           /\ row[8] # -row[9]

\* the search went over every strike pair and no row passed the filter
no_candidate_passed ==
    /\ strike_pairs # << >>
    /\ Len(all_rows) = Len(strike_pairs)
    /\ \A n \in 1..Len(all_rows) :
           ~(all_rows[n][2] > 8 /\ all_rows[n][4] > 8 /\ all_rows[n][10] > 80)

search_result ==
    sort_by_ER_desc(SelectSeq(
        [n \in 1..Len(strike_pairs) |->
            run_strategy(S, Spread_calc(S, strike_pairs[n][1], strike_pairs[n][2],
                                        DTE, IV, rate, strategy),
                         DTE, IV, strategy).res_row],
        passes_filter))

====
